---- MODULE Spec2Model ----
(***************************************************************************)
(* A model of docs/conf.py, the Sphinx configuration of agentic-control.   *)
(*                                                                         *)
(* conf.py is a straight-line Python module.  A load executes its          *)
(* statements in file order inside a fresh namespace: two imports, one     *)
(* sys.path.insert and then one assignment per configuration key.  The     *)
(* model keeps the process-global state the statements read or write       *)
(* (sys.path, sys.modules, the working directory), the namespace being     *)
(* filled, and the position of the load in the file.  Between the end of a *)
(* load and the discard of the configuration a consumer walks the          *)
(* extensions list and selects parsers by file suffix.                     *)
(*                                                                         *)
(* A path is the sequence of its components; an absolute path is written   *)
(* from the root, so <<>> is "/" and <<"repo", "docs">> is "/repo/docs".   *)
(***************************************************************************)
EXTENDS Integers, Sequences, FiniteSets, TLC

VARIABLES
    phase,          \* "idle" (no configuration), "loading", "loaded", "failed"
    pc,             \* index in Program of the next statement to execute
    ns,             \* the namespace of the load: a function name -> value
    sysPath,        \* sys.path: a sequence of absolute paths
    modules,        \* the names in sys.modules
    cwd,            \* the working directory of the process
    cwdExists,      \* whether the working directory still exists
    activated,      \* the plugins the consumer has activated, in order
    selected,       \* the consumer's last parser selection: <<suffix, parser>>
    loads,          \* the loads begun in this process
    aborted,        \* history: the loads that ended with an exception
    writes,         \* history: name -> times it was bound in the current load
    executed,       \* history: the statements executed in the current load
    initPath,       \* history: sys.path when the process started
    insertLog,      \* history: the working directory at each sys.path.insert
    pathAtStart,    \* history: sys.path when the load began
    cwdAtStart,     \* history: the working directory when the load began
    modulesAtStart  \* history: sys.modules when the load began

vars == <<phase, pc, ns, sysPath, modules, cwd, cwdExists, activated,
          selected, loads, aborted, writes, executed, initPath, insertLog,
          pathAtStart, cwdAtStart, modulesAtStart>>

(***************************************************************************)
(* Bounds of the model.                                                    *)
(***************************************************************************)
\* The loads of conf.py one process makes.
MaxLoads == 2

\* The longest sys.path a process starts with.
MaxInitLen == 2

\* The entries a process may start with in sys.path: the standard library and
\* the project's Python sources (an editable install, or PYTHONPATH).
PathPool == { <<"usr", "lib", "python3">>, <<"repo", "python", "src">> }

\* The working directories: the docs directory, the repository, the root.
Dirs == { <<"repo", "docs">>, <<"repo">>, <<>> }

\* The file suffixes the consumer asks a parser for.
Suffixes == { ".rst", ".md", ".txt", ".py" }

(***************************************************************************)
(* Python values.                                                          *)
(***************************************************************************)
None == "<None>"

EmptyDict == [x \in {} |-> None]

\* A dict display {k1: v1, k2: v2, ...}: the items are stored left to right,
\* and a later item with an equal key replaces the earlier value.
RECURSIVE DictLiteral(_)
DictLiteral(items) ==
    IF items = <<>> THEN EmptyDict
    ELSE LET n == Len(items)
             d == DictLiteral(SubSeq(items, 1, n - 1))
             k == items[n][1]
         IN  [x \in DOMAIN d \cup {k} |-> IF x = k THEN items[n][2] ELSE d[x]]

\* list.append(x) in the place of list.insert(0, x)
InsertFront_appends(list, x) == Append(list, x)

\* an insert that skips an entry the list already has
InsertFront_ifAbsent(list, x) ==
    IF \E i \in DOMAIN list : list[i] = x THEN list ELSE <<x>> \o list

\* list.insert(0, x)
InsertFront(list, x) == <<x>> \o list

Range(s) == {s[i] : i \in DOMAIN s}

RECURSIVE Count(_, _)
Count(x, s) ==
    IF s = <<>> THEN 0
    ELSE (IF Head(s) = x THEN 1 ELSE 0) + Count(x, Tail(s))

(***************************************************************************)
(* os.path.abspath on POSIX: join the working directory (os.getcwd(),      *)
(* which raises FileNotFoundError when the directory no longer exists) and *)
(* the relative path, then normalise.  posixpath.normpath of an absolute   *)
(* path drops "" and ".", and lets ".." remove the component before it;    *)
(* at the root ".." is dropped.  new_comps is the list normpath builds.    *)
(***************************************************************************)
RECURSIVE Normpath(_, _)
Normpath(comps, new_comps) ==
    IF comps = <<>> THEN new_comps
    ELSE LET comp == Head(comps)
         IN  IF comp \in {"", "."}
             THEN Normpath(Tail(comps), new_comps)
             ELSE IF comp # ".."
                     \/ (new_comps # <<>> /\ new_comps[Len(new_comps)] = "..")
             THEN Normpath(Tail(comps), Append(new_comps, comp))
             ELSE IF new_comps # <<>>
             THEN Normpath(Tail(comps),
                           SubSeq(new_comps, 1, Len(new_comps) - 1))
             ELSE Normpath(Tail(comps), new_comps)

Abspath(dir, rel) == Normpath(dir \o rel, <<>>)

\* The argument of os.path.abspath at line 10: "../python/src"
PythonSrc == <<"..", "python", "src">>

(***************************************************************************)
(* The values conf.py declares.                                            *)
(***************************************************************************)
\* extensions with an entry listed twice
extensions_duplicated ==
    << "sphinx.ext.autodoc",
       "sphinx.ext.autosummary",
       "sphinx.ext.napoleon",
       "sphinx.ext.viewcode",
       "sphinx.ext.intersphinx",
       "sphinx_autodoc_typehints",
       "sphinx_js",
       "myst_parser",
       "sphinx.ext.viewcode" >>

\* extensions without the Markdown parser
extensions_without_myst ==
    << "sphinx.ext.autodoc",
       "sphinx.ext.autosummary",
       "sphinx.ext.napoleon",
       "sphinx.ext.viewcode",
       "sphinx.ext.intersphinx",
       "sphinx_autodoc_typehints",
       "sphinx_js",
       "sphinxcontrib.mermaid" >>

extensions ==
    << "sphinx.ext.autodoc",
       "sphinx.ext.autosummary",
       "sphinx.ext.napoleon",
       "sphinx.ext.viewcode",
       "sphinx.ext.intersphinx",
       "sphinx_autodoc_typehints",
       "sphinx_js",
       "myst_parser",
       "sphinxcontrib.mermaid" >>

\* source_suffix with a third suffix mapped
source_suffix_with_txt ==
    DictLiteral(<< <<".rst", "restructuredtext">>,
                   <<".md", "markdown">>,
                   <<".txt", "markdown">> >>)

source_suffix ==
    DictLiteral(<< <<".rst", "restructuredtext">>,
                   <<".md", "markdown">> >>)

html_theme_options ==
    DictLiteral(<< <<"navigation_depth", 4>>,
                   <<"collapse_navigation", FALSE>>,
                   <<"sticky_navigation", TRUE>>,
                   <<"includehidden", TRUE>>,
                   <<"titles_only", FALSE>> >>)

autodoc_default_options ==
    DictLiteral(<< <<"members", TRUE>>,
                   <<"member-order", "bysource">>,
                   <<"special-members", "__init__">>,
                   <<"undoc-members", TRUE>>,
                   <<"exclude-members", "__weakref__">>,
                   <<"show-inheritance", TRUE>> >>)

\* js_source_path naming another directory than the root of relative paths
js_source_path_elsewhere == << "../packages" >>

js_source_path == << "../src" >>

root_for_relative_js_paths == "../src"

intersphinx_mapping ==
    DictLiteral(<< <<"python", <<"https://docs.python.org/3", None>> >> >>)

myst_enable_extensions ==
    << "colon_fence", "deflist", "fieldlist", "html_admonition", "html_image",
       "replacements", "smartquotes", "strikethrough", "substitution",
       "tasklist" >>

Import(name) == [op |-> "import", key |-> name, val |-> name]

PathInsert(rel) == [op |-> "insert", key |-> "sys.path", val |-> rel]

Assign(name, value) == [op |-> "assign", key |-> name, val |-> value]

(***************************************************************************)
(* conf.py, statement by statement in file order, by section of the file.  *)
(***************************************************************************)
Preamble ==
    << Import("os"),                                                 \* 6
       Import("sys"),                                                \* 7
       PathInsert(PythonSrc) >>                                      \* 10

ProjectInformation ==
    << Assign("project", "agentic-control"),                         \* 15
       Assign("copyright", "2025, Jon Bogaty"),                      \* 16
       Assign("author", "Jon Bogaty"),                               \* 17
       Assign("release", "1.1.0") >>                                 \* 18

GeneralConfiguration ==
    << Assign("extensions", extensions),                             \* 23
       Assign("templates_path", <<"_templates">>),                   \* 39
       Assign("exclude_patterns",
              <<"_build", "Thumbs.db", ".DS_Store">>),               \* 40
       Assign("source_suffix", source_suffix) >>                     \* 43

HtmlOutput ==
    << Assign("html_theme", "sphinx_rtd_theme"),                     \* 51
       Assign("html_static_path", <<"_static">>),                    \* 52
       Assign("html_title", "agentic-control Documentation"),        \* 53
       Assign("html_short_title", "agentic-control"),                \* 54
       Assign("html_theme_options", html_theme_options) >>           \* 57

ExtensionConfiguration ==
    << Assign("autodoc_default_options", autodoc_default_options),   \* 68
       Assign("autodoc_typehints", "description"),                   \* 76
       Assign("autodoc_class_signature", "separated"),               \* 77
       Assign("autosummary_generate", TRUE),                         \* 80
       Assign("napoleon_google_docstring", TRUE),                    \* 83
       Assign("napoleon_numpy_docstring", TRUE),                     \* 84
       Assign("napoleon_include_init_with_doc", TRUE),               \* 85
       Assign("napoleon_include_private_with_doc", FALSE),           \* 86
       Assign("napoleon_include_special_with_doc", TRUE),            \* 87
       Assign("napoleon_use_admonition_for_examples", TRUE),         \* 88
       Assign("napoleon_use_admonition_for_notes", TRUE),            \* 89
       Assign("napoleon_use_admonition_for_references", TRUE),       \* 90
       Assign("napoleon_use_ivar", FALSE),                           \* 91
       Assign("napoleon_use_param", TRUE),                           \* 92
       Assign("napoleon_use_rtype", TRUE),                           \* 93
       Assign("napoleon_preprocess_types", TRUE),                    \* 94
       Assign("napoleon_attr_annotations", TRUE),                    \* 95
       Assign("js_language", "typescript"),                          \* 99
       Assign("js_source_path", js_source_path),                     \* 100
       Assign("jsdoc_config_path", "../typedoc.json"),               \* 101
       Assign("root_for_relative_js_paths",
              root_for_relative_js_paths),                           \* 102
       Assign("intersphinx_mapping", intersphinx_mapping),           \* 105
       Assign("myst_enable_extensions", myst_enable_extensions),     \* 110
       Assign("myst_heading_anchors", 3) >>                          \* 122

CustomCss ==
    << Assign("html_css_files", <<"custom.css">>) >>                 \* 125

\* conf.py with a key assigned a second time at the end of the file
Program_rebinds ==
    Preamble \o ProjectInformation \o GeneralConfiguration \o HtmlOutput
             \o ExtensionConfiguration \o CustomCss
             \o << Assign("release", "1.1.1") >>

Program ==
    Preamble \o ProjectInformation \o GeneralConfiguration \o HtmlOutput
             \o ExtensionConfiguration \o CustomCss

\* The indices of the assignments of configuration keys.
Assignments == {i \in DOMAIN Program : Program[i].op = "assign"}

\* The configuration keys: the names conf.py assigns.
ConfigKeys == {Program[i].key : i \in Assignments}

\* The names conf.py imports.
Imports == {i \in DOMAIN Program : Program[i].op = "import"}

ImportedNames == {Program[i].key : i \in Imports}

\* The value conf.py declares for a configuration key.
Declared(k) == Program[CHOOSE i \in Assignments : Program[i].key = k].val

\* The position after the last statement of the file.
EndOfFile == Len(Program) + 1

\* a jump over the statement after the sys.path.insert
NextStatement_skips(p) == IF p = 3 THEN p + 2 ELSE p + 1

\* Straight-line code: the statement after the one at position p.
NextStatement(p) == p + 1

\* The module object an import binds.
Module(name) == <<"module", name>>

\* namespace[name] = value
Bind(d, name, value) ==
    [x \in DOMAIN d \cup {name} |-> IF x = name THEN value ELSE d[x]]

\* One more binding of name in the record of the current load.
Written(w, name) ==
    [x \in DOMAIN w \cup {name} |->
        IF x = name THEN (IF name \in DOMAIN w THEN w[name] + 1 ELSE 1)
        ELSE w[x]]

(***************************************************************************)
(* The plugin that owns a setting, after the section comments of the       *)
(* "Extension configuration" part of the file and the "markdown" parser    *)
(* of source_suffix.                                                       *)
(***************************************************************************)
NoOwner == "<none>"

OwnerOf(k) ==
    CASE k \in {"autodoc_default_options", "autodoc_typehints",
                "autodoc_class_signature"} -> "sphinx.ext.autodoc"
      [] k = "autosummary_generate" -> "sphinx.ext.autosummary"
      [] k \in {"napoleon_google_docstring", "napoleon_numpy_docstring",
                "napoleon_include_init_with_doc",
                "napoleon_include_private_with_doc",
                "napoleon_include_special_with_doc",
                "napoleon_use_admonition_for_examples",
                "napoleon_use_admonition_for_notes",
                "napoleon_use_admonition_for_references",
                "napoleon_use_ivar", "napoleon_use_param",
                "napoleon_use_rtype", "napoleon_preprocess_types",
                "napoleon_attr_annotations"} -> "sphinx.ext.napoleon"
      [] k \in {"js_language", "js_source_path", "jsdoc_config_path",
                "root_for_relative_js_paths"} -> "sphinx_js"
      [] k = "intersphinx_mapping" -> "sphinx.ext.intersphinx"
      [] k \in {"myst_enable_extensions",
                "myst_heading_anchors"} -> "myst_parser"
      [] OTHER -> NoOwner

ParserOwner(parser) ==
    IF parser = "markdown" THEN "myst_parser" ELSE NoOwner

(***************************************************************************)
(* The state of a process before its first load of conf.py.                *)
(***************************************************************************)
InitPaths ==
    UNION { [1..n -> PathPool] : n \in 1..MaxInitLen }

Init ==
    /\ phase = "idle"
    /\ pc = 1
    /\ ns = EmptyDict
    /\ sysPath \in InitPaths
    /\ modules \in { {"sys"}, {"sys", "os"} }
    /\ cwd \in Dirs
    /\ cwdExists = TRUE
    /\ aborted = 0
    /\ activated = <<>>
    /\ selected = <<>>
    /\ loads = 0
    /\ writes = EmptyDict
    /\ executed = <<>>
    /\ initPath = sysPath
    /\ insertLog = <<>>
    /\ pathAtStart = sysPath
    /\ cwdAtStart = cwd
    /\ modulesAtStart = modules

(***************************************************************************)
(* The host starts a load: conf.py is executed in a fresh namespace.       *)
(***************************************************************************)
BeginLoad ==
    /\ phase = "idle"
    /\ loads < MaxLoads
    /\ phase' = "loading"
    /\ pc' = 1
    /\ ns' = EmptyDict
    /\ loads' = loads + 1
    /\ writes' = EmptyDict
    /\ executed' = <<>>
    /\ pathAtStart' = sysPath
    /\ cwdAtStart' = cwd
    /\ modulesAtStart' = modules
    /\ UNCHANGED <<cwdExists, aborted, sysPath, modules, cwd, activated,
                   selected, initPath, insertLog>>

\* import os / import sys: the module enters sys.modules if it is not there
\* and its name is bound in the namespace.
ExecImport ==
    /\ phase = "loading"
    /\ pc \in DOMAIN Program
    /\ Program[pc].op = "import"
    /\ modules' = modules \cup {Program[pc].val}
    /\ ns' = Bind(ns, Program[pc].key, Module(Program[pc].val))
    /\ writes' = Written(writes, Program[pc].key)
    /\ executed' = Append(executed, pc)
    /\ pc' = NextStatement(pc)
    /\ UNCHANGED <<cwdExists, aborted, phase, sysPath, cwd, activated,
                   selected, loads, initPath, insertLog, pathAtStart,
                   cwdAtStart, modulesAtStart>>

\* sys.path.insert(0, os.path.abspath("../python/src"))
ExecInsert ==
    /\ phase = "loading"
    /\ pc \in DOMAIN Program
    /\ Program[pc].op = "insert"
    /\ cwdExists
    /\ sysPath' = InsertFront(sysPath, Abspath(cwd, Program[pc].val))
    /\ insertLog' = Append(insertLog, cwd)
    /\ executed' = Append(executed, pc)
    /\ pc' = NextStatement(pc)
    /\ UNCHANGED <<cwdExists, aborted, phase, ns, modules, cwd, activated,
                   selected, loads, writes, initPath, pathAtStart,
                   cwdAtStart, modulesAtStart>>

\* The same statement when the working directory no longer exists:
\* os.getcwd() raises inside os.path.abspath, nothing catches the exception
\* and the load is over at this statement.
ExecInsertRaises ==
    /\ phase = "loading"
    /\ pc \in DOMAIN Program
    /\ Program[pc].op = "insert"
    /\ ~ cwdExists
    /\ phase' = "failed"
    /\ aborted' = aborted + 1
    /\ UNCHANGED <<cwdExists, pc, ns, sysPath, modules, cwd, activated,
                   selected, loads, writes, executed, initPath, insertLog,
                   pathAtStart, cwdAtStart, modulesAtStart>>

\* name = value
ExecAssign ==
    /\ phase = "loading"
    /\ pc \in DOMAIN Program
    /\ Program[pc].op = "assign"
    /\ ns' = Bind(ns, Program[pc].key, Program[pc].val)
    /\ writes' = Written(writes, Program[pc].key)
    /\ executed' = Append(executed, pc)
    /\ pc' = NextStatement(pc)
    /\ UNCHANGED <<cwdExists, aborted, phase, sysPath, modules, cwd,
                   activated, selected, loads, initPath, insertLog,
                   pathAtStart, cwdAtStart, modulesAtStart>>

\* The end of the file is reached: the load is over.
EndLoad ==
    /\ phase = "loading"
    /\ pc >= EndOfFile
    /\ phase' = "loaded"
    /\ UNCHANGED <<cwdExists, aborted, pc, ns, sysPath, modules, cwd,
                   activated, selected, loads, writes, executed, initPath,
                   insertLog, pathAtStart, cwdAtStart, modulesAtStart>>

(***************************************************************************)
(* The consumer of the loaded configuration.                               *)
(***************************************************************************)
\* Activate the next plugin of the extensions list, front to back.
ActivateNext ==
    /\ phase = "loaded"
    /\ "extensions" \in DOMAIN ns
    /\ Len(activated) < Len(ns["extensions"])
    /\ activated' = Append(activated, ns["extensions"][Len(activated) + 1])
    /\ UNCHANGED <<cwdExists, aborted, phase, pc, ns, sysPath, modules, cwd,
                   selected, loads, writes, executed, initPath, insertLog,
                   pathAtStart, cwdAtStart, modulesAtStart>>

\* The parser source_suffix selects for a file suffix, None when it maps none.
ParserFor(d, suffix) == IF suffix \in DOMAIN d THEN d[suffix] ELSE None

\* Once the plugins are activated, select the parser of a source file.
SelectParser ==
    /\ phase = "loaded"
    /\ "extensions" \in DOMAIN ns
    /\ "source_suffix" \in DOMAIN ns
    /\ Len(activated) = Len(ns["extensions"])
    /\ \E suffix \in Suffixes :
          selected' = <<suffix, ParserFor(ns["source_suffix"], suffix)>>
    /\ UNCHANGED <<cwdExists, aborted, phase, pc, ns, sysPath, modules, cwd,
                   activated, loads, writes, executed, initPath, insertLog,
                   pathAtStart, cwdAtStart, modulesAtStart>>

\* The build is over: the configuration is discarded.
Discard ==
    /\ phase \in {"loaded", "failed"}
    /\ phase' = "idle"
    /\ pc' = 1
    /\ ns' = EmptyDict
    /\ activated' = <<>>
    /\ selected' = <<>>
    /\ writes' = EmptyDict
    /\ executed' = <<>>
    /\ UNCHANGED <<cwdExists, aborted, sysPath, modules, cwd, loads,
                   initPath, insertLog, pathAtStart, cwdAtStart,
                   modulesAtStart>>

\* Between two loads the host may change to another, existing, directory.
Chdir ==
    /\ phase = "idle"
    /\ loads < MaxLoads
    /\ \E d \in Dirs \ {cwd} : cwd' = d
    /\ cwdExists' = TRUE
    /\ UNCHANGED <<aborted, phase, pc, ns, sysPath, modules, activated,
                   selected, loads, writes, executed, initPath, insertLog,
                   pathAtStart, cwdAtStart, modulesAtStart>>

\* Between two loads the working directory may be removed from the file
\* system (the root cannot be).
Rmdir ==
    /\ phase = "idle"
    /\ loads < MaxLoads
    /\ cwdExists
    /\ cwd # <<>>
    /\ cwdExists' = FALSE
    /\ UNCHANGED <<aborted, phase, pc, ns, sysPath, modules, cwd, activated,
                   selected, loads, writes, executed, initPath, insertLog,
                   pathAtStart, cwdAtStart, modulesAtStart>>

ExecStatement == ExecImport \/ ExecInsert \/ ExecInsertRaises \/ ExecAssign

Next ==
    \/ BeginLoad
    \/ ExecImport
    \/ ExecInsert
    \/ ExecInsertRaises
    \/ ExecAssign
    \/ EndLoad
    \/ ActivateNext
    \/ SelectParser
    \/ Discard
    \/ Chdir
    \/ Rmdir

Spec == Init /\ [][Next]_vars

\* The interpreter runs a module it has started to its end.
FairSpec == Spec /\ WF_vars(ExecStatement \/ EndLoad)

(***************************************************************************)
(* Properties.                                                             *)
(***************************************************************************)
\* The entry a load made from working directory dir puts in sys.path.
EntryFrom(dir) == Abspath(dir, PythonSrc)

\* The statement of the file that inserts into sys.path has been executed
\* in the current load.
InsertDone == \E i \in DOMAIN executed : Program[executed[i]].op = "insert"

C2_BoundOnceAndUnchanged ==
    /\ \A k \in DOMAIN writes : writes[k] = 1
    /\ DOMAIN writes = DOMAIN ns
    /\ phase = "loaded" =>
          /\ ConfigKeys \subseteq DOMAIN ns
          /\ \A k \in ConfigKeys : ns[k] = Declared(k)

\* The consumer has walked the whole extensions list and selected a parser,
\* and the configuration is not discarded yet.
C2_Witness ==
    /\ phase = "loaded"
    /\ Len(activated) = 9
    /\ selected # <<>>
    /\ loads = 2

\* C3 as stated, its last part: from any starting state a load ends without
\* error.
C3_LoadNeverFails == phase # "failed"

\* C3, amended: a load executes the statements of the file once each in file
\* order, with no branch and no loop; started in a working directory that
\* exists it ends without error in the state where all configuration keys
\* are bound; started in one that was removed it ends at the sys.path.insert
\* statement with the exception of os.getcwd(), no key bound.
C3_StraightLine ==
    /\ [](phase \in {"loading", "failed"} =>
            /\ pc \in 1..EndOfFile
            /\ executed = [i \in 1..(pc - 1) |-> i])
    /\ [](phase = "loaded" =>
            /\ pc = EndOfFile
            /\ executed = [i \in 1..Len(Program) |-> i]
            /\ ConfigKeys \subseteq DOMAIN ns)
    /\ [](phase = "failed" =>
            /\ ~ cwdExists
            /\ Program[pc].op = "insert"
            /\ DOMAIN ns \cap ConfigKeys = {})
    /\ [](phase = "loading" /\ cwdExists => <>(phase = "loaded"))
    /\ [](phase = "loading" /\ ~ cwdExists => <>(phase = "failed"))

\* A second load, started at the root directory, is over.
C3_Witness ==
    /\ phase = "loaded"
    /\ loads = 2
    /\ cwdAtStart = <<>>
    /\ Len(executed) = 41

\* The plugins of C4, in the declared order.
NinePlugins ==
    << "sphinx.ext.autodoc", "sphinx.ext.autosummary", "sphinx.ext.napoleon",
       "sphinx.ext.viewcode", "sphinx.ext.intersphinx",
       "sphinx_autodoc_typehints", "sphinx_js", "myst_parser",
       "sphinxcontrib.mermaid" >>

\* C4: a consumer that walks extensions front to back activates the nine
\* declared plugins, each once, in the declared order.
C4_ActivationOrder ==
    phase = "loaded" =>
        /\ Len(activated) <= 9
        /\ activated = SubSeq(NinePlugins, 1, Len(activated))
        /\ Cardinality(Range(activated)) = Len(activated)
        /\ (~ ENABLED ActivateNext) => activated = NinePlugins

\* The walk of the extensions list is over.
C4_Witness ==
    /\ phase = "loaded"
    /\ ~ ENABLED ActivateNext
    /\ Len(activated) = 9
    /\ activated[9] = "sphinxcontrib.mermaid"

\* C5: source_suffix maps ".rst" to restructuredtext and ".md" to markdown
\* and maps no other suffix, so a parser selection by suffix gives these two
\* parsers and nothing for any other suffix.
C5_SourceSuffix ==
    /\ phase = "loaded" =>
          /\ DOMAIN ns["source_suffix"] = {".rst", ".md"}
          /\ ns["source_suffix"][".rst"] = "restructuredtext"
          /\ ns["source_suffix"][".md"] = "markdown"
    /\ selected # <<>> =>
          selected[2] = CASE selected[1] = ".rst" -> "restructuredtext"
                          [] selected[1] = ".md" -> "markdown"
                          [] OTHER -> None

\* The consumer has selected the parser of a Markdown file.
C5_Witness ==
    /\ phase = "loaded"
    /\ selected = <<".md", "markdown">>

\* C6 as stated: sys.path grows by one entry per load, the earlier entries
\* keep their places after the new ones, and with an unchanged working
\* directory the entry appears n times after n loads.
C6_EntryAppearsNTimes ==
    LET n == Len(insertLog)
    IN  /\ phase \in {"idle", "loaded", "failed"} => n = loads
        /\ Len(sysPath) = Len(initPath) + n
        /\ SubSeq(sysPath, n + 1, Len(sysPath)) = initPath
        /\ (n > 0 /\ \A i \in 1..n : insertLog[i] = insertLog[1]) =>
              Count(EntryFrom(insertLog[1]), sysPath) = n

\* C6, amended: every load that does not raise (C3) prepends one entry at
\* index 0, the absolute path of ../python/src under the working directory
\* of that load; the entries
\* sys.path had before keep their places and order behind the new ones; the
\* insert is unconditional, so after n loads sys.path is n entries longer
\* and, with an unchanged working directory, the entry appears n more times
\* than it did before the first load (n times if it was not there).
C6_PrependPerLoad ==
    LET n == Len(insertLog)
    IN  /\ n = loads - aborted
                - (IF phase = "loading" /\ ~ InsertDone THEN 1 ELSE 0)
        /\ Len(sysPath) = Len(initPath) + n
        /\ SubSeq(sysPath, n + 1, Len(sysPath)) = initPath
        /\ \A i \in 1..n :
              /\ sysPath[i] = EntryFrom(insertLog[n + 1 - i])
              /\ insertLog[n + 1 - i] = <<"repo", "docs">> =>
                    sysPath[i] = <<"repo", "python", "src">>
              /\ insertLog[n + 1 - i] \in { <<"repo">>, <<>> } =>
                    sysPath[i] = <<"python", "src">>
        /\ (n > 0 /\ \A i \in 1..n : insertLog[i] = insertLog[1]) =>
              /\ Count(EntryFrom(insertLog[1]), sysPath)
                    = n + Count(EntryFrom(insertLog[1]), initPath)
              /\ EntryFrom(insertLog[1]) \notin Range(initPath) =>
                    Count(EntryFrom(insertLog[1]), sysPath) = n

\* Two loads from the docs directory: the entry is in sys.path twice, before
\* the entries the process started with.
C6_Witness ==
    /\ phase = "loaded"
    /\ insertLog = << <<"repo", "docs">>, <<"repo", "docs">> >>
    /\ Len(initPath) = 2
    /\ Count(<<"repo", "python", "src">>, sysPath) = 2

\* C7: every setting of the loaded configuration that belongs to a plugin,
\* and the markdown parser of source_suffix, has its plugin in extensions,
\* and so among the plugins the consumer's walk activates.
C7_SettingsHaveTheirPlugin ==
    phase = "loaded" =>
        LET plugins == Range(ns["extensions"])
            needed == {OwnerOf(k) : k \in DOMAIN ns}
                      \cup {ParserOwner(ns["source_suffix"][s]) :
                                s \in DOMAIN ns["source_suffix"]}
        IN  /\ needed \ {NoOwner} \subseteq plugins
            /\ (~ ENABLED ActivateNext) =>
                  needed \ {NoOwner} \subseteq Range(activated)

\* The loaded configuration has settings of all six plugins, and the walk of
\* extensions is over.
C7_Witness ==
    /\ phase = "loaded"
    /\ ~ ENABLED ActivateNext
    /\ {OwnerOf(k) : k \in DOMAIN ns} \ {NoOwner}
          = {"sphinx.ext.autodoc", "sphinx.ext.autosummary",
             "sphinx.ext.napoleon", "sphinx.ext.intersphinx", "sphinx_js",
             "myst_parser"}

\* C8: root_for_relative_js_paths is one of the entries of js_source_path.
C8_JsRootIsASourcePath ==
    phase = "loaded" =>
        ns["root_for_relative_js_paths"] \in Range(ns["js_source_path"])

\* The TypeScript settings are loaded.
C8_Witness ==
    /\ phase = "loaded"
    /\ ns["js_language"] = "typescript"
    /\ Len(ns["js_source_path"]) = 1
    /\ ns["root_for_relative_js_paths"] = "../src"

====
